---- MODULE Spec2Model ----
(***************************************************************************)
(* Cosmic SafeCLI (src/safe.py): the command-analysis pipeline.            *)
(*                                                                         *)
(* Python strings are TLA+ strings; Len, \o and SubSeq act on them as on   *)
(* sequences of characters.  Python lists are TLA+ sequences.              *)
(***************************************************************************)
EXTENDS Integers, Sequences, FiniteSets, TLC

(***************************************************************************)
(* str methods used by the program                                         *)
(***************************************************************************)

\* s[i] (1-based), as a one-character string
Ch(s, i) == SubSeq(s, i, i)

\* s[i:] (1-based start)
From(s, i) == SubSeq(s, i, Len(s))

\* str.startswith
StartsWith(s, p) == Len(p) <= Len(s) /\ SubSeq(s, 1, Len(p)) = p

\* the in operator on two strings: p in s
Contains(s, p) == \E i \in 1..(Len(s) - Len(p) + 1) : SubSeq(s, i, i + Len(p) - 1) = p

\* the in operator on a list: x in xs
InList(x, xs) == \E i \in 1..Len(xs) : xs[i] = x

\* the characters of a string, as a set
CharsOf(s) == { Ch(s, i) : i \in 1..Len(s) }

\* str.replace(old, new), old non-empty: non-overlapping matches, left to right
RECURSIVE Replace(_, _, _)
Replace(s, old, new) ==
    IF Len(s) < Len(old) THEN s
    ELSE IF StartsWith(s, old)
         THEN new \o Replace(From(s, Len(old) + 1), old, new)
         ELSE Ch(s, 1) \o Replace(From(s, 2), old, new)

\* ' '.join(xs)
RECURSIVE Join(_)
Join(xs) ==
    IF Len(xs) = 0 THEN ""
    ELSE IF Len(xs) = 1 THEN xs[1]
    ELSE xs[1] \o " " \o Join(Tail(xs))

\* the characters str.strip() and str.split() treat as whitespace
Whitespace == {" ", "\t", "\n", "\r", "\f"}

\* str.lstrip()
RECURSIVE LStrip(_)
LStrip(s) == IF Len(s) > 0 /\ Ch(s, 1) \in Whitespace THEN LStrip(From(s, 2)) ELSE s

\* str.rstrip()
RECURSIVE RStrip(_)
RStrip(s) ==
    IF Len(s) > 0 /\ Ch(s, Len(s)) \in Whitespace THEN RStrip(SubSeq(s, 1, Len(s) - 1)) ELSE s

\* str.strip()
Strip(s) == RStrip(LStrip(s))

\* str.split(): runs of whitespace separate, no empty fields
RECURSIVE SplitAcc(_, _, _)
SplitAcc(s, cur, acc) ==
    IF Len(s) = 0 THEN (IF cur = "" THEN acc ELSE Append(acc, cur))
    ELSE IF Ch(s, 1) \in Whitespace
         THEN SplitAcc(From(s, 2), "", IF cur = "" THEN acc ELSE Append(acc, cur))
         ELSE SplitAcc(From(s, 2), cur \o Ch(s, 1), acc)

Split(s) == SplitAcc(s, "", <<>>)

\* str.lower() of one character, for the letters the model's inputs use
UpperLetters == "ABCDEFGHIJKLMNOPQRSTUVWXYZ"
LowerLetters == "abcdefghijklmnopqrstuvwxyz"

LowerCh(c) ==
    IF \E i \in 1..Len(UpperLetters) : Ch(UpperLetters, i) = c
    THEN Ch(LowerLetters, CHOOSE i \in 1..Len(UpperLetters) : Ch(UpperLetters, i) = c)
    ELSE c

\* str.lower()
RECURSIVE Lower(_)
Lower(s) == IF Len(s) = 0 THEN "" ELSE LowerCh(Ch(s, 1)) \o Lower(From(s, 2))

(***************************************************************************)
(* generate_fallback: the local rules                                      *)
(***************************************************************************)

Sentinel == "No safe automatic alternative available. Review command manually."
DdBlocked == "echo \"Dangerous disk overwrite command blocked\""
MkfsBlocked == "echo \"Filesystem format prevented\""

\* [f'"{t}"' for t in targets]
RECURSIVE Quoted(_)
Quoted(ts) == IF Len(ts) = 0 THEN <<>> ELSE <<"\"" \o ts[1] \o "\"">> \o Quoted(Tail(ts))

\* [arg for arg in args if not arg.startswith('-')]
RECURSIVE Targets(_)
Targets(args) ==
    IF Len(args) = 0 THEN <<>>
    ELSE IF StartsWith(args[1], "-") THEN Targets(Tail(args))
    ELSE <<args[1]>> \o Targets(Tail(args))

\* any(arg.startswith('-') and c in arg for arg in args)
HasFlagWith(args, c) == \E i \in 1..Len(args) : StartsWith(args[i], "-") /\ Contains(args[i], c)

\* the rm branch on Windows (os.name == 'nt'); is_file is os.path.isfile(targets[0])
RmWindows(args, is_file) ==
    LET targets == Targets(args)
        args_str == Join(Quoted(targets))
    IN  IF Len(targets) > 0
        THEN IF is_file THEN "del /F /Q " \o args_str ELSE "rmdir /S /Q " \o args_str
        ELSE "echo 'Please specify a target directory'"

\* the rm branch elsewhere: new_args is built and dropped, the answer is the
\* three replacements on the joined command
RmPosix(full_cmd) ==
    Replace(Replace(Replace(full_cmd, " -rf ", " -ri "), " -fr ", " -ir "), " -f ", " -i ")

\* the chmod rule
ChmodRule(full_cmd) == Replace(full_cmd, " 777 ", " 755 ")

\* the rules after rm and chmod: git reset, git clean, dd, mkfs, the sentinel
LaterRules(command_tokens, cmd, args) ==
    IF cmd = "git" /\ InList("reset", args) /\ InList("--hard", args)
    THEN "git restore --staged ."
    ELSE IF /\ cmd = "git" /\ InList("clean", args)
            /\ \/ InList("-fd", args) \/ InList("-df", args)
               \/ (InList("-f", args) /\ InList("-d", args))
    THEN "git clean -n"
    ELSE IF cmd = "dd" THEN DdBlocked
    ELSE IF cmd = "mkfs" \/ \E i \in 1..Len(command_tokens) : StartsWith(command_tokens[i], "mkfs.")
    THEN MkfsBlocked
    ELSE Sentinel

\* generate_fallback(command_tokens), with the platform (os.name) and the file
\* system's answer (os.path.isfile) it reads
generate_fallback(command_tokens, os_name, is_file) ==
    IF Len(command_tokens) = 0 THEN Sentinel
    ELSE LET cmd == command_tokens[1]
             args == Tail(command_tokens)
             full_cmd == Join(command_tokens)
         IN  IF cmd = "rm" /\ HasFlagWith(args, "r")
             THEN IF os_name = "nt" THEN RmWindows(args, is_file) ELSE RmPosix(full_cmd)
             ELSE IF cmd = "chmod" /\ InList("777", args)
             THEN ChmodRule(full_cmd)
             ELSE LaterRules(command_tokens, cmd, args)

(***************************************************************************)
(* parse_command: shlex.split, or the whitespace split when it raises      *)
(***************************************************************************)

\* shlex's character classes (posix mode, as shlex.split sets them)
ShlexWhitespace == {" ", "\t", "\r", "\n"}
ShlexQuotes == {"'", "\""}
ShlexEscape == "\\"
ShlexEscapedQuotes == {"\""}

\* shlex.read_token, run to the end of the input: state is the lexer state
\* (" " between tokens, "a" in a word, a quote character in quotes, the escape
\* character after a backslash), acc the tokens emitted so far.  ok is FALSE
\* where read_token raises ValueError.
RECURSIVE ShlexRun(_, _, _, _, _, _)
ShlexRun(s, state, escapedstate, token, quoted, acc) ==
    IF Len(s) = 0
    THEN IF state = " " THEN [ok |-> TRUE, toks |-> acc]
         ELSE IF state = "a"
              THEN [ok |-> TRUE,
                    toks |-> IF token # "" \/ quoted THEN Append(acc, token) ELSE acc]
              ELSE [ok |-> FALSE, toks |-> <<>>]
    ELSE LET c == Ch(s, 1)
             rest == From(s, 2)
         IN  IF state = " "
             THEN IF c \in ShlexWhitespace
                  THEN ShlexRun(rest, " ", escapedstate, token, quoted, acc)
                  ELSE IF c = ShlexEscape
                  THEN ShlexRun(rest, c, "a", token, quoted, acc)
                  ELSE IF c \in ShlexQuotes
                  THEN ShlexRun(rest, c, escapedstate, token, quoted, acc)
                  ELSE ShlexRun(rest, "a", escapedstate, c, quoted, acc)
             ELSE IF state \in ShlexQuotes
             THEN IF c = state
                  THEN ShlexRun(rest, "a", escapedstate, token, TRUE, acc)
                  ELSE IF c = ShlexEscape /\ state \in ShlexEscapedQuotes
                  THEN ShlexRun(rest, c, state, token, TRUE, acc)
                  ELSE ShlexRun(rest, state, escapedstate, token \o c, TRUE, acc)
             ELSE IF state = ShlexEscape
             THEN LET kept == IF escapedstate \in ShlexQuotes /\ c # state /\ c # escapedstate
                              THEN token \o state ELSE token
                  IN  ShlexRun(rest, escapedstate, escapedstate, kept \o c, quoted, acc)
             ELSE \* state = "a"
                  IF c \in ShlexWhitespace
                  THEN IF token # "" \/ quoted
                       THEN ShlexRun(rest, " ", " ", "", FALSE, Append(acc, token))
                       ELSE ShlexRun(rest, " ", escapedstate, token, quoted, acc)
                  ELSE IF c \in ShlexQuotes
                  THEN ShlexRun(rest, c, escapedstate, token, quoted, acc)
                  ELSE IF c = ShlexEscape
                  THEN ShlexRun(rest, c, "a", token, quoted, acc)
                  ELSE ShlexRun(rest, "a", escapedstate, token \o c, quoted, acc)

\* shlex.split(s)
shlex_split(s) == ShlexRun(s, " ", " ", "", FALSE, <<>>)

\* parse_command(cmd_str)
parse_command(cmd_str) ==
    LET r == shlex_split(cmd_str)
    IN  IF r.ok THEN r.toks ELSE Split(Strip(cmd_str))

(***************************************************************************)
(* _expand_short_flags, explain_tokens, detect_danger                      *)
(***************************************************************************)

\* _expand_short_flags with the slice taken one character late (token[2:])
expand_short_flags_late_slice(token) ==
    IF StartsWith(token, "--") \/ ~StartsWith(token, "-") \/ Len(token) <= 2
    THEN <<token>>
    ELSE [i \in 1..(Len(token) - 2) |-> "-" \o Ch(token, i + 2)]

\* _expand_short_flags(token)
expand_short_flags(token) ==
    IF StartsWith(token, "--") \/ ~StartsWith(token, "-") \/ Len(token) <= 2
    THEN <<token>>
    ELSE [i \in 1..(Len(token) - 1) |-> "-" \o Ch(token, i + 1)]

NoExplanation == "No explanation available"

\* the lookup without its default: a missing part gets an empty explanation
DbGetNoDefault(commands_db, part) ==
    IF part \in DOMAIN commands_db THEN commands_db[part] ELSE ""

\* commands_db.get(part, 'No explanation available'); a dict is a function
DbGet(commands_db, part) ==
    IF part \in DOMAIN commands_db THEN commands_db[part] ELSE NoExplanation

\* the parts one token contributes to the breakdown
PartsOf(token) ==
    IF StartsWith(token, "-") /\ ~StartsWith(token, "--")
    THEN expand_short_flags(token)
    ELSE <<token>>

\* explain_tokens(tokens, commands_db): a list of (part, explanation) pairs
RECURSIVE explain_tokens(_, _)
explain_tokens(tokens, commands_db) ==
    IF Len(tokens) = 0 THEN <<>>
    ELSE LET parts == PartsOf(tokens[1])
         IN  [i \in 1..Len(parts) |-> <<parts[i], DbGet(commands_db, parts[i])>>]
             \o explain_tokens(Tail(tokens), commands_db)

\* entry.get('pattern', '').lower()
PatternOf(entry) == IF "pattern" \in DOMAIN entry THEN Lower(entry["pattern"]) ELSE ""

\* ' '.join(parse_command(cmd_str)).lower()
Normalized(cmd_str) == Lower(Join(parse_command(cmd_str)))

\* the test detect_danger makes for one entry
Hits(entry, normalized) == PatternOf(entry) # "" /\ Contains(normalized, PatternOf(entry))

\* the loop of detect_danger, were it to stop at the first hit
RECURSIVE DangerLoopFirstHit(_, _)
DangerLoopFirstHit(normalized, danger_patterns) ==
    IF Len(danger_patterns) = 0 THEN <<>>
    ELSE IF Hits(danger_patterns[1], normalized) THEN <<danger_patterns[1]>>
    ELSE DangerLoopFirstHit(normalized, Tail(danger_patterns))

\* the loop of detect_danger over the entries
RECURSIVE DangerLoop(_, _)
DangerLoop(normalized, danger_patterns) ==
    IF Len(danger_patterns) = 0 THEN <<>>
    ELSE (IF Hits(danger_patterns[1], normalized) THEN <<danger_patterns[1]>> ELSE <<>>)
         \o DangerLoop(normalized, Tail(danger_patterns))

\* detect_danger(cmd_str, danger_patterns)
detect_danger(cmd_str, danger_patterns) == DangerLoop(Normalized(cmd_str), danger_patterns)

(***************************************************************************)
(* Text handling of main: ANSI stripping, lines, error classification      *)
(***************************************************************************)

\* The escape character U+001B and the backquote U+0060, which a string of this
\* module cannot hold, are written "^" and "%"; no text of the model holds a
\* caret or a percent sign of its own, and the character classes below place
\* the two stand-ins where the characters they stand for belong.
ESC == "^"
TICK == "%"
ForeRED == ESC \o "[31m"
ForeRESET == ESC \o "[39m"

\* the classes of the regular expression \x1B(?:[@-Z\\-_]|\[[0-?]*[ -/]*[@-~])
AnsiC1 == CharsOf("@ABCDEFGHIJKLMNOPQRSTUVWXYZ\\]_")
AnsiParam == CharsOf("0123456789:;<=>?")
AnsiInter == CharsOf(" !\"#$&'()*+,-./")
AnsiFinal ==
    CharsOf("@ABCDEFGHIJKLMNOPQRSTUVWXYZ[\\]_abcdefghijklmnopqrstuvwxyz{|}~") \cup {TICK}

\* the length of the longest prefix of s made of characters of class
RECURSIVE Span(_, _)
Span(s, class) == IF Len(s) > 0 /\ Ch(s, 1) \in class THEN 1 + Span(From(s, 2), class) ELSE 0

\* the length of the escape sequence s starts with, 0 when it starts with none
AnsiMatch(s) ==
    IF Len(s) < 2 \/ Ch(s, 1) # ESC THEN 0
    ELSE IF Ch(s, 2) \in AnsiC1 THEN 2
    ELSE IF Ch(s, 2) # "[" THEN 0
    ELSE LET p == Span(From(s, 3), AnsiParam)
             q == Span(From(s, 3 + p), AnsiInter)
             f == 3 + p + q
         IN  IF f <= Len(s) /\ Ch(s, f) \in AnsiFinal THEN f ELSE 0

\* the characters of s at the positions lo..hi that are in keep, in order
RECURSIVE Pick(_, _, _, _)
Pick(s, keep, lo, hi) ==
    IF lo > hi THEN ""
    ELSE IF lo = hi THEN (IF lo \in keep THEN Ch(s, lo) ELSE "")
    ELSE LET mid == (lo + hi) \div 2
         IN  Pick(s, keep, lo, mid) \o Pick(s, keep, mid + 1, hi)

\* the positions of s inside an escape sequence; a sequence holds no escape
\* character after its first, so no two matches overlap
AnsiCovered(s) ==
    UNION { i..(i + AnsiMatch(From(s, i)) - 1) : i \in { k \in 1..Len(s) : Ch(s, k) = ESC } }

\* ansi_escape.sub('', s)
ansi_strip(s) == Pick(s, (1..Len(s)) \ AnsiCovered(s), 1, Len(s))

\* str.splitlines(), for texts whose line breaks are "\n": the k-th line runs
\* from after the (k-1)-th line break to before the k-th, and a text that ends
\* in a line break has no empty last line
SplitLines(s) ==
    LET breaks == { i \in 1..Len(s) : Ch(s, i) = "\n" }
        nth(k) == IF k = 0 THEN 0
                  ELSE IF k > Cardinality(breaks) THEN Len(s) + 1
                  ELSE CHOOSE i \in breaks : Cardinality({ j \in breaks : j < i }) = k - 1
        n == IF Len(s) = 0 THEN 0
             ELSE IF Ch(s, Len(s)) = "\n" THEN Cardinality(breaks)
             ELSE Cardinality(breaks) + 1
    IN  [k \in 1..n |-> SubSeq(s, nth(k - 1) + 1, nth(k) - 1)]

\* str.strip(TICK)
RECURSIVE StripTicks(_)
StripTicks(s) ==
    IF Len(s) > 0 /\ Ch(s, 1) = TICK THEN StripTicks(From(s, 2))
    ELSE IF Len(s) > 0 /\ Ch(s, Len(s)) = TICK THEN StripTicks(SubSeq(s, 1, Len(s) - 1))
    ELSE s

\* any(s.startswith(p) for p in prefixes)
StartsWithAny(s, prefixes) == \E i \in 1..Len(prefixes) : StartsWith(s, prefixes[i])

\* err_starts of main
err_starts ==
    << "Copilot returned", "Copilot CLI not found", "Copilot did not",
       "Copilot request", "Failed to run Copilot", "Did you mean:", "For non-interactive",
       "GitHub Copilot quota exceeded", "No safe automatic alternative", "Gemini API" >>

\* err_prefixes of main, used when the command to execute is picked
err_prefixes ==
    << "Copilot returned an error", "Copilot CLI not found", "Copilot did not",
       "Copilot request timed out", "Failed to run Copilot", "Did you mean:",
       "For non-interactive mode", "Try ", "Invalid command format",
       "GitHub Copilot quota exceeded" >>

\* the prefixes main tests the secondary service's answer for
gemini_err_starts == << "Gemini API", "Failed to parse" >>

\* is_error of main, for the primary tool's answer
CopilotIsError(suggestion) ==
    LET clean_suggestion == Strip(ansi_strip(suggestion))
    IN  StartsWithAny(clean_suggestion, err_starts) \/ clean_suggestion = ""

\* the test main makes on the secondary service's answer
GeminiFailed(gemini_suggestion) ==
    StartsWithAny(Strip(ansi_strip(gemini_suggestion)), gemini_err_starts)

\* suggestion_display of main
SuggestionDisplay(suggestion) ==
    LET suggestion_lines == SplitLines(Strip(suggestion))
    IN  IF Len(suggestion_lines) > 0
        THEN LET first == StripTicks(Strip(suggestion_lines[1]))
             IN  IF /\ first # ""
                    /\ ~StartsWith(first, "Why") /\ ~StartsWith(first, "The")
                    /\ ~StartsWithAny(first, err_starts)
                    /\ ~StartsWith(first, "No safe automatic")
                 THEN <<"Use: " \o first>> \o Tail(suggestion_lines)
                 ELSE suggestion_lines
        ELSE << IF Strip(suggestion) # "" THEN Strip(suggestion) ELSE "No suggestion." >>

\* whether main asks 'Execute suggested command? (y/N)'
AsksToExecute(suggestion) == ~StartsWithAny(Strip(ansi_strip(suggestion)), err_starts)

\* the command main takes from the suggestion when the override is left empty:
\* the first line that is non-empty and starts with none of err_prefixes
RECURSIVE FirstCommandLine(_)
FirstCommandLine(lines) ==
    IF Len(lines) = 0 THEN ""
    ELSE LET line == StripTicks(Strip(lines[1]))
         IN  IF line # "" /\ ~StartsWithAny(line, err_prefixes) THEN line
             ELSE FirstCommandLine(Tail(lines))

DefaultExecCmd(suggestion) == FirstCommandLine(SplitLines(suggestion))

(***************************************************************************)
(* get_copilot_suggestion: three invocation forms of the primary tool      *)
(***************************************************************************)

\* What one subprocess.run can do: raise FileNotFoundError, TimeoutExpired or
\* another exception, or complete with a return code, stdout and stderr.
Completed(rc, out, err) == [kind |-> "exit", returncode |-> rc, stdout |-> out, stderr |-> err]
Raised(exc) == [kind |-> exc, returncode |-> 0, stdout |-> "", stderr |-> ""]

NotFoundMsg == "GitHub Copilot CLI not found. Install 'gh' with 'copilot' extension."
TimeoutMsg == "Copilot request timed out. Try again or use --copilot-timeout 60 (or higher)."
QuotaMsg ==
    ForeRED \o "GitHub Copilot quota exceeded (HTTP 402)." \o ForeRESET
            \o " You have no quota remaining."
NoSuggestionMsg == "Copilot did not return a suggestion."
NoOutputMsg == "Copilot returned no output."
FailedToRunMsg == "Failed to run Copilot: [Errno 13] Permission denied"

\* gh copilot suggest: the function returns its output when the return code is 0
GhReturns(o) == o.kind = "exit" /\ o.returncode = 0

\* copilot --prompt: returns its output when the return code is 0 and the
\* trimmed output is non-empty
NewReturns(o) == o.kind = "exit" /\ o.returncode = 0 /\ Strip(o.stdout) # ""

\* the returned text of a form that returns its output
ReturnedOutput(o) == Strip(o.stdout)

\* the legacy form (--model, --silent): always returns
LegacyResult(o) ==
    IF o.kind = "FileNotFoundError" THEN NotFoundMsg
    ELSE IF o.kind = "TimeoutExpired" THEN TimeoutMsg
    ELSE IF o.kind # "exit" THEN FailedToRunMsg
    ELSE IF o.returncode # 0
         THEN LET err == Strip(o.stderr)
              IN  IF Contains(err, "402") \/ Contains(Lower(err), "quota") THEN QuotaMsg
                  ELSE IF err # "" THEN "Copilot returned an error: " \o err
                  ELSE NoSuggestionMsg
         ELSE IF Strip(o.stdout) # "" THEN Strip(o.stdout) ELSE NoOutputMsg

\* the fall-through, were a failed copilot --prompt to start over with gh
NextFormStartOver(form) == IF form = "gh" THEN "new" ELSE "gh"

\* the form tried after a form that did not return
NextForm(form) == IF form = "gh" THEN "new" ELSE "legacy"

\* whether a form returns from the function on outcome o
FormReturns(form, o) ==
    IF form = "gh" THEN GhReturns(o)
    ELSE IF form = "new" THEN NewReturns(o)
    ELSE TRUE

\* what the function returns when the form returns on outcome o
FormResult(form, o) == IF form = "legacy" THEN LegacyResult(o) ELSE ReturnedOutput(o)

(***************************************************************************)
(* get_gemini_suggestion: the request loop                                 *)
(***************************************************************************)

retries == 3

\* What one request can do: answer with a text field, answer with a body of
\* another shape (KeyError, IndexError, TypeError), answer with a text field
\* that is no string (any other exception),
\* fail with an HTTP status, or fail in transport.
GeminiText(t) == [kind |-> "text", code |-> 200, text |-> t]
GeminiOther(k, c) == [kind |-> k, code |-> c, text |-> ""]

\* the reason phrase of an HTTP status
Reason(code) ==
    IF code = 429 THEN "429 Too Many Requests"
    ELSE "500 Internal Server Error"

\* wait_time = 2 ** attempt
wait_time(attempt) == 2 ^ attempt

\* the retry test with the bound off by one (attempt < retries)
GeminiRetriesOffByOne(o, attempt) == o.kind = "http" /\ o.code = 429 /\ attempt < retries

\* the branch that sleeps and continues: HTTP 429 before the last attempt
GeminiRetries(o, attempt) == o.kind = "http" /\ o.code = 429 /\ attempt < retries - 1

\* the string an attempt returns when it does not continue
GeminiResult(o) ==
    IF o.kind = "text" THEN Strip(o.text)
    ELSE IF o.kind = "shape" THEN "Failed to parse Gemini response: 'candidates'"
    ELSE IF o.kind = "http" THEN "Gemini API request failed: " \o Reason(o.code)
    ELSE IF o.kind = "nontext"
         THEN "Gemini API error: 'NoneType' object has no attribute 'strip'"
    ELSE "Gemini API error: <urlopen error timed out>"

(***************************************************************************)
(* State                                                                   *)
(***************************************************************************)

VARIABLES
    pc,           \* where the run is
    cmd,          \* the command string
    gemini_key,   \* args.gemini_key ("" when none is configured)
    os_name,      \* os.name
    is_file,      \* what os.path.isfile answers
    commands_db,  \* the explanation table
    danger_db,    \* the danger-pattern table
    tokens,       \* parse_command(cmd)
    hits,         \* detect_danger(cmd, danger_db)
    breakdown,    \* explain_tokens(tokens, commands_db)
    launches,     \* the subprocess.run calls made, each with its form and outcome
    copilot_ret,  \* what get_copilot_suggestion returned
    g_outcomes,   \* the requests get_gemini_suggestion sent, each with its outcome
    g_sleeps,     \* the time.sleep calls it made
    gemini_ret,   \* what get_gemini_suggestion returned
    consulted,    \* the suggestion sources main has used, in order
    suggestion,   \* main's suggestion
    source,       \* the source whose text suggestion holds
    display,      \* suggestion_display, the lines of the suggestion box
    asked,        \* whether 'Execute suggested command?' was asked
    executed,     \* the commands handed to the shell, each with the line the user typed
    exit_code     \* the exit status, -1 while running

vars ==
    << pc, cmd, gemini_key, os_name, is_file, commands_db, danger_db, tokens, hits,
       breakdown, launches, copilot_ret, g_outcomes, g_sleeps, gemini_ret, consulted,
       suggestion, source, display, asked, executed, exit_code >>

\* a call's return value: not returned yet, a string, or None
Pending == [kind |-> "pending", text |-> ""]
Str(t) == [kind |-> "str", text |-> t]
None == [kind |-> "None", text |-> ""]

(***************************************************************************)
(* Inputs                                                                  *)
(***************************************************************************)

MaxCmdLen == 3
MaxPatterns == 2
MaxArgs == 3

\* all strings of length n over the characters of alphabet
RECURSIVE StringsOfLen(_, _)
StringsOfLen(alphabet, n) ==
    IF n = 0 THEN {""}
    ELSE { s \o c : s \in StringsOfLen(alphabet, n - 1), c \in alphabet }

\* all lists of length at most n over the elements of S
ListsUpTo(S, n) == UNION { [1..k -> S] : k \in 0..n }

\* command strings for the tokenizer, the explanation lookup and the matcher
CmdAlphabet == {"r", "F", "-", " ", "'", "\\"}
CmdExamples ==
    { "rm -rf foo", "RM -RF /tmp", "sudo rm -rf /", "rm \"a b\" --force -x",
      "rm -rfr foo foo" }
CmdStrings == UNION { StringsOfLen(CmdAlphabet, n) : n \in 0..MaxCmdLen } \cup CmdExamples

\* explanation tables
SampleDbs ==
    { <<>>,
      [t \in {"rm", "-r"} |-> "explained " \o t],
      [t \in {"-r", "-F", "r", "-rF", "foo", "--force"} |-> "explained " \o t] }

\* danger-pattern entries: plain, upper-case, empty and missing pattern fields
SampleEntries ==
    { [pattern |-> "r", explanation |-> "E1"],
      [pattern |-> "-F", explanation |-> "E2"],
      [pattern |-> "rm -rf", explanation |-> "E3", advice |-> "A3"],
      [pattern |-> "", explanation |-> "E4"],
      [explanation |-> "E5"] }
PatternLists == ListsUpTo(SampleEntries, MaxPatterns)

\* token lists for the local rules: a command name and arguments of its family
ArgsOf(name) ==
    IF name = "rm" THEN {"-rf", "-fr", "-rfv", "-r", "-f", "--force", "foo", "mkfs.ext4"}
    ELSE IF name = "chmod" THEN {"777", "755", "-R", "file.sh"}
    ELSE IF name = "git"
         THEN {"push", "--force", "-f", "reset", "--hard", "clean", "-fd", "-d", "origin"}
    ELSE IF name = "dd" THEN {"if=/dev/zero", "of=/dev/sda"}
    ELSE IF name = "ls" THEN {"-la", "mkfs.ext4", "rm"}
    ELSE {"/dev/sda1"}
CommandNames == {"rm", "chmod", "git", "dd", "mkfs", "mkfs.ext4", "ls", "mkfsx"}
TokenLists ==
    {<<>>} \cup UNION { { <<name>> \o a : a \in ListsUpTo(ArgsOf(name), MaxArgs) }
                        : name \in CommandNames }

\* the platforms and, where it is read, the file system's answer
Platforms == { <<"posix", FALSE>>, <<"nt", FALSE>>, <<"nt", TRUE>> }

\* the commands given to main
MainCommands == { "  ", "ls -la", " rm -rf foo ", "chmod 777 f" }
MainPlatforms == { <<"posix", FALSE>>, <<"nt", FALSE>> }

\* the tables main loads
MainCommandsDb == [t \in {"rm", "-r", "-f", "ls"} |-> "explained " \o t]
MainDangerDb ==
    << [pattern |-> "rm -rf", explanation |-> "Deletes recursively.", advice |-> "Use -i."],
       [pattern |-> "chmod 777", explanation |-> "World-writable."],
       [pattern |-> "push --force", explanation |-> "Overwrites history."],
       [pattern |-> "rm -r", explanation |-> "Deletes directories."],
       [pattern |-> "dd if=", explanation |-> "Overwrites a disk."] >>

\* what a launch of the primary tool can do
Stdouts == {" \n", "rm -ri foo\n", "The command is risky.\nrm -ri foo"}
Stderrs == {"", "boom", "Quota exceeded"}
RunOutcomes ==
    { Raised(e) : e \in {"FileNotFoundError", "TimeoutExpired", "OSError"} }
    \cup { Completed(0, out, "") : out \in Stdouts }
    \cup { Completed(1, "", err) : err \in Stderrs }

\* what a request to the secondary service can do
GeminiTexts == {"", "rm -ri foo", "Copilot returned an error: relayed"}
GeminiOutcomes ==
    { GeminiText(t) : t \in GeminiTexts }
    \cup { GeminiOther("http", c) : c \in {429, 500} }
    \cup { GeminiOther(k, 200) : k \in {"shape", "nontext"} }
    \cup { GeminiOther("urlerror", 0) }

\* what the user answers
Answers == {"Y", "n", "EOF"}
Overrides == {"", "echo ok"}

(***************************************************************************)
(* Initial states                                                          *)
(***************************************************************************)

\* everything main has not computed yet
Fresh ==
    /\ commands_db = <<>> /\ danger_db = <<>>
    /\ tokens = <<>> /\ hits = <<>> /\ breakdown = <<>>
    /\ launches = <<>> /\ copilot_ret = Pending
    /\ g_outcomes = <<>> /\ g_sleeps = <<>> /\ gemini_ret = Pending
    /\ consulted = <<>> /\ suggestion = "" /\ source = "none"
    /\ display = <<>> /\ asked = FALSE /\ executed = <<>> /\ exit_code = -1

\* a run of main
Init ==
    /\ pc = "start"
    /\ cmd \in MainCommands
    /\ gemini_key \in {"", "key"}
    /\ \E p \in MainPlatforms : os_name = p[1] /\ is_file = p[2]
    /\ Fresh

\* a call of generate_fallback on a token list
FallbackInit ==
    /\ pc = "fallback"
    /\ cmd = "" /\ gemini_key = ""
    /\ \E p \in Platforms : os_name = p[1] /\ is_file = p[2]
    /\ commands_db = <<>> /\ danger_db = <<>>
    /\ tokens \in TokenLists
    /\ hits = <<>> /\ breakdown = <<>>
    /\ launches = <<>> /\ copilot_ret = Pending
    /\ g_outcomes = <<>> /\ g_sleeps = <<>> /\ gemini_ret = Pending
    /\ consulted = <<>> /\ suggestion = "" /\ source = "none"
    /\ display = <<>> /\ asked = FALSE /\ executed = <<>> /\ exit_code = -1

\* a call of parse_command, explain_tokens or detect_danger on a command string
TokInit ==
    /\ pc = "tok"
    /\ cmd \in CmdStrings
    /\ gemini_key = "" /\ os_name = "posix" /\ is_file = FALSE
    /\ Fresh

(***************************************************************************)
(* main                                                                    *)
(***************************************************************************)

\* sys.exit(code), or the end of main
Exit(code) == pc' = "exit" /\ exit_code' = code

\* lines 439-451 without the test of line 449: the run goes on to load the
\* tables whatever the tokens are
ParseCommandLoadsFirst ==
    /\ pc = "start"
    /\ cmd' = Strip(cmd)
    /\ tokens' = parse_command(Strip(cmd))
    /\ pc' = "load"
    /\ UNCHANGED << gemini_key, os_name, is_file, commands_db, danger_db, hits, breakdown,
                    launches, copilot_ret, g_outcomes, g_sleeps, gemini_ret, consulted,
                    suggestion, source, display, asked, executed, exit_code >>

\* lines 439-451: the command is read, trimmed and tokenized; no tokens, exit 0
ParseCommand ==
    /\ pc = "start"
    /\ cmd' = Strip(cmd)
    /\ tokens' = parse_command(Strip(cmd))
    /\ IF tokens' = <<>> THEN Exit(0) ELSE pc' = "load" /\ UNCHANGED exit_code
    /\ UNCHANGED << gemini_key, os_name, is_file, commands_db, danger_db, hits, breakdown,
                    launches, copilot_ret, g_outcomes, g_sleeps, gemini_ret, consulted,
                    suggestion, source, display, asked, executed >>

\* lines 439-444: no command argument and the prompt reads end of file
StdinEOF ==
    /\ pc = "start"
    /\ Exit(0)
    /\ UNCHANGED << cmd, gemini_key, os_name, is_file, commands_db, danger_db, tokens, hits,
                    breakdown, launches, copilot_ret, g_outcomes, g_sleeps, gemini_ret,
                    consulted, suggestion, source, display, asked, executed >>

\* load_json: a table that is missing or malformed ends the run with status 2
LoadFails ==
    /\ pc = "load"
    /\ Exit(2)
    /\ UNCHANGED << cmd, gemini_key, os_name, is_file, commands_db, danger_db, tokens, hits,
                    breakdown, launches, copilot_ret, g_outcomes, g_sleeps, gemini_ret,
                    consulted, suggestion, source, display, asked, executed >>

\* lines 453-487 and 590: both tables load, the hits and the breakdown are
\* computed and shown; with no hit the run ends, with a hit the primary tool
\* is contacted
Analyze ==
    /\ pc = "load"
    /\ commands_db' = MainCommandsDb
    /\ danger_db' = MainDangerDb
    /\ hits' = detect_danger(cmd, MainDangerDb)
    /\ breakdown' = explain_tokens(tokens, MainCommandsDb)
    /\ IF hits' # <<>> THEN pc' = "gh" /\ UNCHANGED exit_code ELSE Exit(0)
    /\ UNCHANGED << cmd, gemini_key, os_name, is_file, tokens, launches, copilot_ret,
                    g_outcomes, g_sleeps, gemini_ret, consulted, suggestion, source,
                    display, asked, executed >>

\* lines 526-556: the suggestion box is built and shown; the run goes on to
\* the execute prompt unless the suggestion starts with one of err_starts
Settle(text, src) ==
    /\ suggestion' = text
    /\ source' = src
    /\ display' = SuggestionDisplay(text)
    /\ IF AsksToExecute(text)
       THEN asked' = TRUE /\ pc' = "prompt" /\ UNCHANGED exit_code
       ELSE asked' = FALSE /\ Exit(0)

\* lines 495-523 without the test of line 505: an error answer goes to the
\* secondary service whether a key is configured or not
AfterCopilotIgnoresKey(text) ==
    /\ copilot_ret' = Str(text)
    /\ IF CopilotIsError(text)
       THEN /\ pc' = "gemini"
            /\ consulted' = <<"copilot">>
            /\ UNCHANGED << suggestion, source, display, asked, exit_code >>
       ELSE /\ consulted' = <<"copilot">>
            /\ Settle(text, "copilot")

\* lines 495-523, once get_copilot_suggestion has returned text: an error
\* answer goes to the secondary service when a key is configured and to the
\* local rules when none is; any other answer is the suggestion
AfterCopilot(text) ==
    /\ copilot_ret' = Str(text)
    /\ IF CopilotIsError(text) /\ gemini_key # ""
       THEN /\ pc' = "gemini"
            /\ consulted' = <<"copilot">>
            /\ UNCHANGED << suggestion, source, display, asked, exit_code >>
       ELSE IF CopilotIsError(text)
       THEN /\ consulted' = <<"copilot", "fallback">>
            /\ Settle(generate_fallback(tokens, os_name, is_file), "fallback")
       ELSE /\ consulted' = <<"copilot">>
            /\ Settle(text, "copilot")

\* one subprocess.run of get_copilot_suggestion, in the form pc names
Launch(form) ==
    /\ pc = form
    /\ \E o \in RunOutcomes :
         /\ launches' = Append(launches, [form |-> form, outcome |-> o])
         /\ IF FormReturns(form, o)
            THEN AfterCopilot(FormResult(form, o))
            ELSE /\ pc' = NextForm(form)
                 /\ UNCHANGED << copilot_ret, consulted, suggestion, source, display, asked,
                                 exit_code >>
    /\ UNCHANGED << cmd, gemini_key, os_name, is_file, commands_db, danger_db, tokens, hits,
                    breakdown, g_outcomes, g_sleeps, gemini_ret, executed >>

RunGh == Launch("gh")
RunNew == Launch("new")
RunLegacy == Launch("legacy")

\* lines 507-523, once get_gemini_suggestion has returned text: an answer that
\* starts with one of gemini_err_starts goes to the local rules, any other
\* answer is the suggestion
AfterGemini(text) ==
    /\ gemini_ret' = Str(text)
    /\ IF GeminiFailed(text)
       THEN /\ consulted' = consulted \o <<"gemini", "fallback">>
            /\ Settle(generate_fallback(tokens, os_name, is_file), "fallback")
       ELSE /\ consulted' = Append(consulted, "gemini")
            /\ Settle(text, "gemini")

\* one pass of the for loop of get_gemini_suggestion: a request and what follows
\* it.  Were the loop to run out, the function would return None and main's
\* ansi_escape.sub would raise.
GeminiRequest ==
    /\ pc = "gemini"
    /\ \E o \in GeminiOutcomes :
         LET attempt == Len(g_outcomes)
         IN  /\ g_outcomes' = Append(g_outcomes, o)
             /\ IF GeminiRetries(o, attempt)
                THEN /\ g_sleeps' = Append(g_sleeps, wait_time(attempt))
                     /\ UNCHANGED << consulted, suggestion, source, display, asked >>
                     /\ IF attempt + 1 < retries
                        THEN UNCHANGED << pc, gemini_ret, exit_code >>
                        ELSE gemini_ret' = None /\ Exit(1)
                ELSE /\ UNCHANGED g_sleeps
                     /\ AfterGemini(GeminiResult(o))
    /\ UNCHANGED << cmd, gemini_key, os_name, is_file, commands_db, danger_db, tokens, hits,
                    breakdown, launches, copilot_ret, executed >>

\* lines 557-561 and 587: the user answers the execute prompt
AnswerPrompt ==
    /\ pc = "prompt"
    /\ \E answer \in Answers :
         LET proceed == IF answer = "EOF" THEN "n" ELSE Lower(Strip(answer))
         IN  IF proceed \in {"y", "yes"}
             THEN pc' = "override" /\ UNCHANGED exit_code
             ELSE Exit(0)
    /\ UNCHANGED << cmd, gemini_key, os_name, is_file, commands_db, danger_db, tokens, hits,
                    breakdown, launches, copilot_ret, g_outcomes, g_sleeps, gemini_ret,
                    consulted, suggestion, source, display, asked, executed >>

\* lines 562-586: the user types a command or leaves the line empty; the
\* command typed, or else the first usable line of the suggestion, is run
Execute ==
    /\ pc = "override"
    /\ \E typed \in Overrides :
         LET entered == IF typed = "EOF" THEN "" ELSE Strip(typed)
             exec_cmd == IF entered = "" THEN DefaultExecCmd(suggestion) ELSE entered
         IN  executed' = IF exec_cmd = "" THEN executed
                         ELSE Append(executed, [typed |-> entered, exec_cmd |-> exec_cmd])
    /\ Exit(0)
    /\ UNCHANGED << cmd, gemini_key, os_name, is_file, commands_db, danger_db, tokens, hits,
                    breakdown, launches, copilot_ret, g_outcomes, g_sleeps, gemini_ret,
                    consulted, suggestion, source, display, asked >>

Next ==
    \/ ParseCommand \/ StdinEOF \/ LoadFails \/ Analyze
    \/ RunGh \/ RunNew \/ RunLegacy \/ GeminiRequest
    \/ AnswerPrompt \/ Execute

Spec == Init /\ [][Next]_vars

(***************************************************************************)
(* Calls of the functions on their own                                     *)
(***************************************************************************)

\* generate_fallback(tokens)
FallbackCall ==
    /\ pc = "fallback"
    /\ suggestion' = generate_fallback(tokens, os_name, is_file)
    /\ source' = "fallback"
    /\ pc' = "fallback_done"
    /\ UNCHANGED << cmd, gemini_key, os_name, is_file, commands_db, danger_db, tokens, hits,
                    breakdown, launches, copilot_ret, g_outcomes, g_sleeps, gemini_ret,
                    consulted, display, asked, executed, exit_code >>

FallbackNext == FallbackCall

FallbackSpec == FallbackInit /\ [][FallbackNext]_vars

\* parse_command(cmd)
TokParse ==
    /\ pc = "tok"
    /\ tokens' = parse_command(cmd)
    /\ pc' = "tok_parsed"
    /\ UNCHANGED << cmd, gemini_key, os_name, is_file, commands_db, danger_db, hits,
                    breakdown, launches, copilot_ret, g_outcomes, g_sleeps, gemini_ret,
                    consulted, suggestion, source, display, asked, executed, exit_code >>

\* explain_tokens(tokens, commands_db) on the tokens of cmd
TokExplain ==
    /\ pc = "tok_parsed"
    /\ \E db \in SampleDbs :
         /\ commands_db' = db
         /\ breakdown' = explain_tokens(tokens, db)
    /\ pc' = "tok_explained"
    /\ UNCHANGED << cmd, gemini_key, os_name, is_file, danger_db, tokens, hits,
                    launches, copilot_ret, g_outcomes, g_sleeps, gemini_ret,
                    consulted, suggestion, source, display, asked, executed, exit_code >>

\* detect_danger(cmd, danger_patterns)
TokDetect ==
    /\ pc = "tok"
    /\ \E patterns \in PatternLists :
         /\ danger_db' = patterns
         /\ hits' = detect_danger(cmd, patterns)
    /\ pc' = "tok_detected"
    /\ UNCHANGED << cmd, gemini_key, os_name, is_file, commands_db, tokens,
                    breakdown, launches, copilot_ret, g_outcomes, g_sleeps, gemini_ret,
                    consulted, suggestion, source, display, asked, executed, exit_code >>

TokNext == TokParse \/ TokExplain \/ TokDetect

TokSpec == TokInit /\ [][TokNext]_vars

(***************************************************************************)
(* Properties of the local rules (FallbackSpec)                            *)
(***************************************************************************)

\* the arguments of the token list generate_fallback was called on
FbArgs == Tail(tokens)

\* C2: for every token list whose first token is git and whose arguments hold
\* push together with --force or -f, generate_fallback returns
\* git push --force-with-lease.
C2_ForcePushSuggestsLease ==
    ( /\ pc = "fallback_done"
      /\ Len(tokens) > 0 /\ tokens[1] = "git"
      /\ InList("push", FbArgs)
      /\ (InList("--force", FbArgs) \/ InList("-f", FbArgs)) )
    => suggestion = "git push --force-with-lease"

\* C3: for every token list whose first token is chmod and whose arguments
\* hold 777 at any position, generate_fallback returns the original command
\* with each 777 argument replaced by 755, so the result holds no 777 token.
C3_Chmod777Replaced ==
    ( /\ pc = "fallback_done"
      /\ Len(tokens) > 0 /\ tokens[1] = "chmod"
      /\ InList("777", FbArgs) )
    => /\ suggestion =
            Join([i \in 1..Len(tokens) |->
                    IF i > 1 /\ tokens[i] = "777" THEN "755" ELSE tokens[i]])
       /\ ~InList("777", Split(suggestion))

\* C4: off Windows, for every token list whose first token is rm and that has
\* a flag argument containing r, no flag argument of the returned command
\* contains f, and the returned command is not the original command.
C4_RmNeverDestructive ==
    ( /\ pc = "fallback_done"
      /\ os_name # "nt"
      /\ Len(tokens) > 0 /\ tokens[1] = "rm"
      /\ \E i \in 1..Len(FbArgs) : StartsWith(FbArgs[i], "-") /\ Contains(FbArgs[i], "r") )
    => LET out == Split(suggestion)
       IN  /\ \A i \in 2..Len(out) : StartsWith(out[i], "-") => ~Contains(out[i], "f")
           /\ suggestion # Join(tokens)

\* the first tokens the local rules name
IsMkfs(t) == t = "mkfs" \/ StartsWith(t, "mkfs.")
RuleNames == {"rm", "chmod", "git", "dd"}

\* C12: generate_fallback dispatches on the first token only.  For the empty
\* list, and for every token list whose first token is none of rm, chmod, git,
\* dd, mkfs or mkfs.*, whatever the remaining tokens are, it returns the
\* manual-review sentinel; for a first token of dd or mkfs/mkfs.* it returns a
\* blocking message, which is never the original command.
C12_DispatchOnFirstToken ==
    pc = "fallback_done" =>
        /\ (tokens = <<>> => suggestion = Sentinel)
        /\ (Len(tokens) > 0 /\ tokens[1] \notin RuleNames /\ ~IsMkfs(tokens[1]))
              => suggestion = Sentinel
        /\ (Len(tokens) > 0 /\ tokens[1] = "dd")
              => suggestion = DdBlocked /\ suggestion # Join(tokens)
        /\ (Len(tokens) > 0 /\ IsMkfs(tokens[1]))
              => suggestion = MkfsBlocked /\ suggestion # Join(tokens)

(***************************************************************************)
(* Properties of the tokenizer and the matcher (TokSpec)                   *)
(***************************************************************************)

\* a combined short-flag cluster: one leading dash, longer than two characters
IsCluster(t) == StartsWith(t, "-") /\ ~StartsWith(t, "--") /\ Len(t) > 2

\* the concatenation of a list of lists
RECURSIVE Flatten(_)
Flatten(xss) == IF Len(xss) = 0 THEN <<>> ELSE xss[1] \o Flatten(Tail(xss))

\* the tokens a token stands for after short-flag expansion
Expanded(t) == IF IsCluster(t) THEN [k \in 1..(Len(t) - 1) |-> "-" \o Ch(t, k + 1)] ELSE <<t>>

\* the token column of the breakdown
BreakdownTokens == [i \in 1..Len(breakdown) |-> breakdown[i][1]]

\* C5, as claimed: the token sequence parse_command returns is short-flag
\* expanded, so it holds no combined cluster and rm -rf foo gives rm, -r, -f, foo.
C5_TokenizerExpandsFlags ==
    pc = "tok_parsed" =>
        /\ tokens = Flatten([i \in 1..Len(tokens) |-> Expanded(tokens[i])])
        /\ (cmd = "rm -rf foo" => tokens = <<"rm", "-r", "-f", "foo">>)

\* C5, amended: parse_command returns the quote-aware tokens with no short-flag
\* expansion (rm -rf foo gives rm, -rf, foo); empty input gives no tokens, a
\* command with no quote and no backslash splits at whitespace, and one
\* unclosed single quote gives the naive whitespace split.  The expansion is
\* made by explain_tokens: its token column is the tokens of parse_command with
\* every cluster replaced by one -c per character after the dash, every other
\* token unchanged.
C5_ExpansionInExplain ==
    /\ pc \in {"tok_parsed", "tok_explained"} =>
        /\ (Strip(cmd) = "" => tokens = <<>>)
        /\ (cmd = "rm -rf foo" => tokens = <<"rm", "-rf", "foo">>)
        /\ (CharsOf(cmd) \cap {"'", "\"", "\\"} = {} => tokens = Split(cmd))
        /\ ( /\ CharsOf(cmd) \cap {"\"", "\\"} = {}
             /\ Cardinality({ i \in 1..Len(cmd) : Ch(cmd, i) = "'" }) = 1 )
           => tokens = Split(Strip(cmd))
    /\ pc = "tok_explained" =>
        /\ BreakdownTokens = Flatten([i \in 1..Len(tokens) |-> Expanded(tokens[i])])
        /\ (cmd = "rm -rf foo" => BreakdownTokens = <<"rm", "-r", "-f", "foo">>)

\* C5 witness: the breakdown of rm -rf foo, whose cluster -rf was expanded
C5_Witness ==
    /\ pc = "tok_explained"
    /\ cmd = "rm -rf foo"
    /\ tokens = <<"rm", "-rf", "foo">>
    /\ BreakdownTokens = <<"rm", "-r", "-f", "foo">>

\* whether an entry's pattern, lower-cased, is a non-empty substring of the
\* normalized command
Matches(entry, command) ==
    /\ "pattern" \in DOMAIN entry
    /\ entry["pattern"] # ""
    /\ Contains(Lower(Join(parse_command(command))), Lower(entry["pattern"]))

\* C6: detect_danger returns exactly the subsequence of the pattern entries
\* whose lower-cased pattern is a non-empty substring of the normalized
\* command: every match, in list order, case-insensitively, and never an entry
\* with an empty or missing pattern.
C6_AllMatchesInOrder ==
    pc = "tok_detected" =>
        /\ LET Test(entry) == Matches(entry, cmd)
           IN  hits = SelectSeq(danger_db, Test)
        /\ \A i \in 1..Len(hits) : "pattern" \in DOMAIN hits[i] /\ hits[i]["pattern"] # ""
        /\ ( /\ cmd = "RM -RF /tmp"
             /\ danger_db = <<[pattern |-> "rm -rf", explanation |-> "E3", advice |-> "A3"]>> )
           => hits = danger_db

\* C6 witness: an upper-case command hits both entries of a two-entry list
\* whose second entry matches only case-insensitively
C6_Witness ==
    /\ pc = "tok_detected"
    /\ cmd # Lower(cmd)
    /\ Len(danger_db) = 2 /\ Len(hits) = 2
    /\ hits[1] # hits[2]
    /\ hits[2]["pattern"] # Lower(hits[2]["pattern"])

\* the tokens after short-flag expansion, in input order
PostExpansion == Flatten([i \in 1..Len(tokens) |-> Expanded(tokens[i])])

\* C13: explain_tokens returns one (token, explanation) pair per
\* post-expansion token, in input order and with duplicates kept; the
\* explanation of a token present in the table is its table entry and that of
\* every token absent from the table is the sentinel No explanation available.
C13_OnePairPerToken ==
    pc = "tok_explained" =>
        /\ Len(breakdown) = Len(PostExpansion)
        /\ \A i \in 1..Len(breakdown) :
              /\ Len(breakdown[i]) = 2
              /\ breakdown[i][1] = PostExpansion[i]
              /\ breakdown[i][2] = IF PostExpansion[i] \in DOMAIN commands_db
                                   THEN commands_db[PostExpansion[i]]
                                   ELSE NoExplanation

\* C13 witness: a breakdown that holds the same pair twice, a token with its
\* table entry and a token with the sentinel, after a cluster was expanded
C13_Witness ==
    /\ pc = "tok_explained"
    /\ Len(breakdown) > Len(tokens)
    /\ \E i, j \in 1..Len(breakdown) : i < j /\ breakdown[i] = breakdown[j]
    /\ \E i \in 1..Len(breakdown) :
          breakdown[i][1] \in DOMAIN commands_db /\ breakdown[i][2] # NoExplanation
    /\ \E i \in 1..Len(breakdown) :
          breakdown[i][1] \notin DOMAIN commands_db /\ breakdown[i][2] = NoExplanation

(***************************************************************************)
(* Properties of the advisory resolution (Spec)                            *)
(***************************************************************************)

\* main has settled on the suggestion it shows
Shown == source # "none"

\* every launch of the primary tool raised FileNotFoundError
PrimaryAbsent ==
    /\ Len(launches) > 0
    /\ \A i \in 1..Len(launches) : launches[i].outcome.kind = "FileNotFoundError"

\* a text main is to treat as an error: empty after ANSI stripping and
\* trimming, or starting with one of the known error prefixes
IsErrorText(t) ==
    LET clean == Strip(ansi_strip(t))
    IN  clean = "" \/ StartsWithAny(clean, err_starts)

\* C1: with a danger hit, the primary tool absent in every invocation form and
\* no secondary key configured, the suggestion shown is the output of
\* generate_fallback for the same tokens.
C1_AbsentToolGivesFallback ==
    ( /\ Shown
      /\ hits # <<>>
      /\ PrimaryAbsent
      /\ gemini_key = "" )
    => /\ suggestion = generate_fallback(tokens, os_name, is_file)
       /\ display = SuggestionDisplay(generate_fallback(tokens, os_name, is_file))

\* C7: an advisory response from the primary tool or from the secondary
\* service that is empty after ANSI stripping and trimming, or starts with a
\* known error prefix, is never accepted as the suggestion, and the user is
\* never asked whether to execute it.
C7_ErrorResponsesRejected ==
    /\ (source = "copilot" => ~IsErrorText(copilot_ret.text))
    /\ (source = "gemini" => ~IsErrorText(gemini_ret.text))
    /\ (asked /\ source \in {"copilot", "gemini"} => ~IsErrorText(suggestion))

\* C8: an invocation of the primary tool whose output the function returns as
\* the suggestion, with no further invocation, exited with status 0 and
\* printed non-empty trimmed output; exit 0 with empty output ends in the
\* empty-output error or in a further invocation.
C8_SuccessNeedsOutput ==
    \A i \in 1..Len(launches) :
        LET o == launches[i].outcome
            last == i = Len(launches) /\ copilot_ret.kind # "pending"
        IN  /\ (last /\ o.kind = "exit" /\ copilot_ret.text = Strip(o.stdout))
                   => (o.returncode = 0 /\ Strip(o.stdout) # "")
            /\ (last /\ o.kind = "exit" /\ o.returncode = 0 /\ Strip(o.stdout) = "")
                   => copilot_ret.text = NoOutputMsg

\* the forms of the launches made so far
LaunchForms == [i \in 1..Len(launches) |-> launches[i].form]

\* C9, as claimed: the primary tool is launched at most twice.
C9_AtMostTwoLaunches == Len(launches) <= 2

\* C9, amended: the primary tool is launched at most three times, once per
\* invocation form, in the order gh copilot suggest, copilot --prompt, legacy
\* copilot; a later form is launched only after the one before it raised,
\* exited non-zero or (for copilot --prompt) printed nothing, and none after
\* the function has returned.
C9_AtMostThreeLaunches ==
    /\ Len(launches) <= 3
    /\ LaunchForms = SubSeq(<<"gh", "new", "legacy">>, 1, Len(launches))
    /\ \A i \in 1..(Len(launches) - 1) :
          LET o == launches[i].outcome
          IN  \/ o.kind # "exit"
              \/ o.returncode # 0
              \/ (launches[i].form = "new" /\ Strip(o.stdout) = "")
    /\ (copilot_ret.kind # "pending" => pc \notin {"gh", "new", "legacy"})

\* C9 witness: all three forms were launched and the function has returned
C9_Witness ==
    /\ LaunchForms = <<"gh", "new", "legacy">>
    /\ copilot_ret.kind = "str"

\* an outcome that is a rate-limit response
Is429(o) == o.kind = "http" /\ o.code = 429

\* C10: get_gemini_suggestion sends at most 3 requests; every request but the
\* last was answered 429 and followed by a wait of 1s, then 2s; any other
\* outcome, and a third 429, ends the call at once with a string (the third
\* 429 with the request-failed message); while the call runs fewer than 3
\* requests have been sent, so it ends.
C10_GeminiBoundedRetry ==
    LET n == Len(g_outcomes)
    IN  /\ n <= 3
        /\ \A i \in 1..(n - 1) : Is429(g_outcomes[i])
        /\ gemini_ret.kind \in {"pending", "str"}
        /\ gemini_ret.kind = "pending" =>
              /\ \A i \in 1..n : Is429(g_outcomes[i])
              /\ g_sleeps = SubSeq(<<1, 2>>, 1, n)
              /\ n < 3
              /\ (n > 0 => pc = "gemini")
        /\ gemini_ret.kind = "str" =>
              /\ n >= 1
              /\ g_sleeps = SubSeq(<<1, 2>>, 1, n - 1)
              /\ pc # "gemini"
              /\ (Is429(g_outcomes[n]) =>
                    n = 3 /\ gemini_ret.text = "Gemini API request failed: 429 Too Many Requests")
        /\ (n > 0 /\ (~Is429(g_outcomes[n]) \/ n = 3)) => gemini_ret.kind = "str"

\* C10 witness: three requests, each answered 429, waits of 1s and 2s, and the
\* call has returned its error string
C10_Witness ==
    /\ Len(g_outcomes) = 3
    /\ \A i \in 1..3 : Is429(g_outcomes[i])
    /\ g_sleeps = <<1, 2>>
    /\ gemini_ret.kind = "str"

(***************************************************************************)
(* Properties of a run of main (Spec)                                      *)
(***************************************************************************)

\* C11: a command that tokenizes to no tokens ends the run with exit status 0
\* at once: once the command has been read the run is over, neither table was
\* loaded, detect_danger and explain_tokens have produced nothing, the primary
\* tool was never launched, no request went to the secondary service, no
\* local rule was consulted and nothing was shown or executed; the run never
\* reaches the table loading, so no table can make it end with another status.
C11_EmptyCommandExitsFirst ==
    (pc # "start" /\ tokens = <<>>) =>
        /\ pc = "exit" /\ exit_code = 0
        /\ commands_db = <<>> /\ danger_db = <<>>
        /\ hits = <<>> /\ breakdown = <<>>
        /\ launches = <<>> /\ copilot_ret = Pending
        /\ g_outcomes = <<>> /\ gemini_ret = Pending
        /\ consulted = <<>> /\ source = "none" /\ display = <<>>
        /\ ~asked /\ executed = <<>>

\* C11 witness: a blank command was read, trimmed to the empty string and
\* tokenized to no tokens, and the run has ended with status 0
C11_Witness ==
    /\ pc = "exit" /\ exit_code = 0
    /\ cmd = "" /\ tokens = <<>>
    /\ parse_command(cmd) = <<>>

\* the orders in which main can have used its suggestion sources
CascadeOrders ==
    { <<>>, <<"copilot">>, <<"copilot", "gemini">>, <<"copilot", "fallback">>,
      <<"copilot", "gemini", "fallback">> }

\* the text the source named by source produced
SourceText ==
    IF source = "copilot" THEN copilot_ret.text
    ELSE IF source = "gemini" THEN gemini_ret.text
    ELSE generate_fallback(tokens, os_name, is_file)

\* the cascade is over: main is at the execute prompt or past it
CascadeOver == hits # <<>> /\ pc \in {"prompt", "override", "exit"}

\* C14, the order of the cascade: no backend is contacted and no local rule
\* used without a danger hit; the secondary service gets a request only with a
\* key configured and after the primary tool's answer was classified as an
\* error; the local rules are used only after the primary tool's answer was an
\* error and, with a key configured, the secondary service's answer was
\* classified as failed; a backend whose answer was taken as the suggestion is
\* the last source used; and once the cascade is over there is one suggestion,
\* the text of the last source used, and its box has at least one line.
C14_CascadeOrder ==
    LET copilot_failed == CopilotIsError(copilot_ret.text)
        gemini_failed == GeminiFailed(gemini_ret.text)
    IN  /\ (launches # <<>> \/ g_outcomes # <<>> \/ consulted # <<>> \/ Shown) => hits # <<>>
        /\ g_outcomes # <<>> =>
              gemini_key # "" /\ copilot_ret.kind = "str" /\ copilot_failed
        /\ consulted \in CascadeOrders
        /\ InList("gemini", consulted) => g_outcomes # <<>> /\ gemini_ret.kind = "str"
        /\ InList("fallback", consulted) =>
              /\ copilot_failed
              /\ IF gemini_key # ""
                 THEN InList("gemini", consulted) /\ gemini_failed
                 ELSE g_outcomes = <<>>
        /\ source = "copilot" =>
              ~copilot_failed /\ consulted = <<"copilot">> /\ g_outcomes = <<>>
        /\ source = "gemini" => ~gemini_failed /\ consulted = <<"copilot", "gemini">>
        /\ Shown <=> CascadeOver
        /\ Shown =>
              /\ source = consulted[Len(consulted)]
              /\ suggestion = SourceText
              /\ Len(display) >= 1

\* the cascade is running: a launch or a request is the next step
CascadeRunning == pc \in {"gh", "new", "legacy", "gemini"}

\* the launches and requests made so far
CascadeCalls == Len(launches) + Len(g_outcomes)

\* one step of the running cascade, whatever its outcome: one more launch or
\* request was made, and the cascade either still runs or has settled on the
\* suggestion it shows
CascadeStep ==
    CascadeRunning =>
        /\ CascadeCalls' = CascadeCalls + 1
        /\ CascadeRunning' \/ Shown'

\* C14: the cascade keeps its order in every state; while it runs fewer than
\* three launches or fewer than three requests have been made, and every step
\* makes one more, so for every combination of backend outcomes it ends, after
\* at most six calls, with one suggestion shown; the suggestion, once shown,
\* is never replaced.
C14_CascadeOrderedAndEnds ==
    /\ []C14_CascadeOrder
    /\ [](CascadeRunning => ~Shown /\ Len(launches) <= 3 /\ Len(g_outcomes) < 3)
    /\ [](pc \in {"gh", "new", "legacy"} => Len(launches) < 3)
    /\ [][CascadeStep]_vars
    /\ [][Shown => UNCHANGED << suggestion, source, display, consulted >>]_vars

\* C14 witness: all three launches of the primary tool ended in an error, the
\* secondary service was asked and failed, and the local rules gave the
\* suggestion shown
C14_Witness ==
    /\ Len(launches) = 3 /\ CopilotIsError(copilot_ret.text)
    /\ gemini_key # "" /\ g_outcomes # <<>> /\ GeminiFailed(gemini_ret.text)
    /\ consulted = <<"copilot", "gemini", "fallback">>
    /\ source = "fallback" /\ suggestion = generate_fallback(tokens, os_name, is_file)
    /\ Len(display) >= 1

\* C15: a command handed to the shell after the user answered yes and left the
\* override empty is the line the suggestion box showed with the Use: prefix;
\* a line shown as prose or as an error is never run by default.
C15_ExecutesDisplayedLine ==
    \A i \in 1..Len(executed) :
        executed[i].typed = "" =>
            /\ Len(display) >= 1
            /\ display[1] = "Use: " \o executed[i].exec_cmd

====
